---------------------------- MODULE Spec2Model ----------------------------
(***************************************************************************)
(* Stock ledger and costing engine of the inventory tracker backend.       *)
(*                                                                         *)
(* The database (materials, the product, production batches, material      *)
(* orders, sales, stock adjustments) is the shared state.  Every service   *)
(* method is an async function: between two awaits that touch the database *)
(* another request may run, so a method is modelled as a small process     *)
(* whose steps are its database reads and writes.  No operation of the   *)
(* services is given a session,    so connection.transaction(...) neither *)
(* isolates nor rolls back the statements issued inside its callback.      *)
(*                                                                         *)
(* Numbers: stock levels are integers (all quantities fed to the model are *)
(* integers and every stock delta the code computes from them is integral);*)
(* costs are exact rationals extended with the non-finite values           *)
(* +Infinity, -Infinity and NaN of the JavaScript number type.             *)
(***************************************************************************)
EXTENDS Integers, Sequences, FiniteSets, TLC

\* ------------------------------------------------------------------ bounds
\* largest quantity a request carries
MaxQty == 2
\* magnitude of the most negative quantity a request carries
NegQty == 1
\* number of service calls started, after the populating ones, in one behaviour of Spec
MaxCalls == 2
\* number of service calls started, after the populating ones, in one behaviour of SpecBatch
MaxBatchCalls == 5

Procs == {1, 2}

Materials == {"A", "B"}

\* product.recipe: ordered list of {material, quantity}
Recipe == << [material |-> "A", quantity |-> 5],
             [material |-> "B", quantity |-> 3] >>

Quantities == ((0 - NegQty) .. MaxQty) \ {0}

\* ------------------------------------------------- JavaScript numbers
\* A cost is [n, d]: d > 0 a reduced fraction; d = 0 and n = 1, -1, 0 are
\* +Infinity, -Infinity and NaN.
Abs(x) == IF x < 0 THEN 0 - x ELSE x

Sgn(x) == IF x < 0 THEN 0 - 1 ELSE IF x > 0 THEN 1 ELSE 0

RECURSIVE GCD(_, _)
GCD(a, b) == IF b = 0 THEN a ELSE GCD(b, a % b)

Norm(n, d) ==
  IF d = 0 THEN [n |-> Sgn(n), d |-> 0]
  ELSE LET g == GCD(Abs(n), Abs(d))
       IN  [n |-> (Sgn(d) * n) \div g, d |-> Abs(d) \div g]

R(i) == [n |-> i, d |-> 1]

NaN == [n |-> 0, d |-> 0]

IsNaN(a) == a.d = 0 /\ a.n = 0

\* an addition that drops its second operand
RAddMutant(a, b) == a

RAdd(a, b) ==
  IF a.d = 0 /\ b.d = 0 THEN (IF a = b THEN a ELSE NaN)
  ELSE Norm(a.n * b.d + b.n * a.d, a.d * b.d)

RNeg(a) == [n |-> 0 - a.n, d |-> a.d]

RSub(a, b) == RAdd(a, RNeg(b))

RMul(a, b) == Norm(a.n * b.n, a.d * b.d)

\* a / b; a finite non-zero value over zero is a signed infinity, and an
\* infinity over a finite value keeps the sign of the quotient
RDiv(a, b) ==
  IF b.d = 0 THEN (IF a.d = 0 THEN NaN ELSE R(0))
  ELSE IF a.d = 0 THEN [n |-> a.n * (IF b.n < 0 THEN 0 - 1 ELSE 1), d |-> 0]
  ELSE Norm(a.n * b.d, a.d * b.n)

\* a < b and a >= b of JavaScript: both false when either side is NaN
RLt(a, b) == ~IsNaN(a) /\ ~IsNaN(b) /\ a # b /\
             (IF a.d = 0 THEN a.n < 0
              ELSE IF b.d = 0 THEN b.n > 0
              ELSE a.n * b.d < b.n * a.d)

RGe(a, b) == ~IsNaN(a) /\ ~IsNaN(b) /\ ~RLt(a, b)

\* Math.max(0, x): NaN when x is NaN
Max0(x) == IF IsNaN(x) THEN NaN ELSE IF RLt(x, R(0)) THEN R(0) ELSE x

\* ------------------------------------------------- schema validation
\* a Number path with no `min`: only NaN is rejected (cast error)
MinZeroMutant(x) == ~IsNaN(x)

\* a Number path with `min: 0`: NaN and values below 0 are rejected
MinZero(x) == RGe(x, R(0))

\* Material: currentStock {min: 0}, averageCost {min: 0}
MaterialValid(doc) == MinZero(R(doc.currentStock)) /\ MinZero(doc.averageCost)

\* Product: currentStock {min: 0}, averageUnitCost {min: 0}
ProductValid(doc) == MinZero(R(doc.currentStock)) /\ MinZero(doc.averageUnitCost)

\* ProductionBatch: quantity {min: 1}, unitCost {min: 0}, totalCost {min: 0}
BatchValid(doc) == doc.quantity >= 1 /\ MinZero(doc.unitCost) /\ MinZero(doc.totalCost)

\* document.save() writes the paths whose value differs from the loaded one
SavePath(dbVal, loadedVal, newVal) == IF newVal = loadedVal THEN dbVal ELSE newVal

\* ------------------------------------------------------------------ state
VARIABLES
  material,   \* material -> [currentStock, averageCost]
  product,    \* the product: [currentStock, averageUnitCost]
  batches,    \* production batches, by creation order
  orders,     \* material orders, by creation order ("deleted" marks a removed one)
  sales,      \* sales, by creation order
  ledger,     \* stock adjustments, by creation order
  call,       \* per request slot: the running service call and its locals
  pre,        \* history: the database as it was when the slot's call started
  done,       \* history: per batch, the units taken by successful reverse / waste calls
  initial,    \* history: the stock of every item in the initial state
  callsLeft,  \* service calls that may still be started
  setup       \* the requests that populate the database before the others start

vars == << material, product, batches, orders, sales, ledger, call, pre, done,
           initial, callsLeft, setup >>

db == [material |-> material, product |-> product, batches |-> batches,
       orders |-> orders, sales |-> sales, ledger |-> ledger]

NoDoc == [currentStock |-> 0, averageCost |-> R(0)]

NoProductDoc == [currentStock |-> 0, averageUnitCost |-> R(0)]

NoBatch == [quantity |-> 0, materialCosts |-> << >>, unitCost |-> R(0),
            totalCost |-> R(0), reversedQuantity |-> 0, wastedQuantity |-> 0,
            isReversed |-> FALSE, isWasted |-> FALSE,
            reversalAdjustments |-> << >>, wasteAdjustments |-> << >>, v |-> 0]

NoOrder == [material |-> "", quantity |-> 0, totalCost |-> 0, unitCost |-> R(0),
            deleted |-> FALSE]

NoSale == [quantity |-> 0, stockAdjustments |-> << >>, status |-> ""]

IdleCall == [op |-> "idle", pc |-> "idle", result |-> "", quantity |-> 0,
             id |-> 0, i |-> 0, productDoc |-> NoProductDoc,
             materialDoc |-> NoDoc, batchDoc |-> NoBatch,
             materialCosts |-> << >>, totalBatchCost |-> R(0),
             alreadyQty |-> 0, adjustmentIds |-> << >>,
             recipeDocs |-> [m \in Materials |-> NoDoc], missing |-> << >>,
             item |-> "", kind |-> "", totalCost |-> 0,
             orderDoc |-> NoOrder, saleDoc |-> NoSale, newStock |-> 0]

Free(p) == call[p].pc \in {"idle", "done", "failed"}

\* a request takes the lowest free slot (slot 2 only holds a request that runs
\* while slot 1 is busy): its locals are reset and the database is recorded.
\* The requests of `setup` come first, one at a time: they populate the database.
Begin(p, c) ==
  /\ Free(p)
  /\ \A r \in Procs : r < p => ~Free(r)
  /\ IF setup # << >>
     THEN /\ \A r \in Procs : Free(r)
          /\ Head(setup) = [op |-> c.op, quantity |-> c.quantity, item |-> c.item,
                            totalCost |-> c.totalCost]
          /\ setup' = Tail(setup)
          /\ UNCHANGED callsLeft
     ELSE /\ callsLeft > 0
          /\ callsLeft' = callsLeft - 1
          /\ UNCHANGED setup
  /\ call' = [call EXCEPT ![p] = c]
  /\ pre' = [pre EXCEPT ![p] = db]

Step(p, c) == call' = [call EXCEPT ![p] = c]

\* what is left of a call once it has returned or thrown: its arguments, its
\* outcome and what it hands back to the caller
Returned(c, pc, result) ==
  [IdleCall EXCEPT !.op = c.op, !.pc = pc, !.result = result, !.quantity = c.quantity,
                   !.id = c.id, !.item = c.item, !.kind = c.kind,
                   !.totalCost = c.totalCost, !.missing = c.missing,
                   !.adjustmentIds = c.adjustmentIds]

Fail(p, why) == Step(p, Returned(call[p], "failed", why))

Succeed(p, c) == Step(p, Returned(c, "done", "ok"))

InitDb(stockA, stockB) ==
  /\ material = [m \in Materials |->
                   [currentStock |-> IF m = "A" THEN stockA ELSE stockB,
                    averageCost |-> R(1)]]
  /\ product = [currentStock |-> 0, averageUnitCost |-> R(0)]
  /\ batches = << >>
  /\ orders = << >>
  /\ sales = << >>
  /\ ledger = << >>
  /\ call = [p \in Procs |-> IdleCall]
  /\ pre = [p \in Procs |-> db]
  /\ done = << >>
  /\ initial = [m \in Materials \cup {"P"} |->
                  IF m = "P" THEN 0 ELSE material[m].currentStock]

\* a stock adjustment document that records the size of the change only
AdjustmentMutant(item, itemType, type, qty, prev, new, orig) ==
  [item |-> item, itemType |-> itemType, adjustmentType |-> type,
   quantity |-> Abs(qty), previousStock |-> prev, newStock |-> new,
   isReversed |-> FALSE, reversalAdjustment |-> 0, originalAdjustment |-> orig]

\* a stock adjustment document
Adjustment(item, itemType, type, qty, prev, new, orig) ==
  [item |-> item, itemType |-> itemType, adjustmentType |-> type,
   quantity |-> qty, previousStock |-> prev, newStock |-> new,
   isReversed |-> FALSE, reversalAdjustment |-> 0, originalAdjustment |-> orig]


\* ------------------------------------- ProductionService.createProductionBatch
\* findById(productId).populate(recipe): the product is loaded once, up front
BatchStart(p, q) ==
  /\ Begin(p, [IdleCall EXCEPT !.op = "batch", !.pc = "batchLine", !.quantity = q,
                               !.i = 1, !.productDoc = product])
  /\ UNCHANGED << material, product, batches, orders, sales, ledger, done, initial >>

RequiredQty(item, q) == item.quantity * q

\* material.currentStock < requiredQty
Short(doc, requiredQty) == doc.currentStock < requiredQty

\* what the exception says: `Insufficient ${material.name}. Need
\* ${requiredQty}, have ${material.currentStock}`
Insufficient(m, requiredQty, currentStock) ==
  [material |-> m, required |-> requiredQty, available |-> currentStock]

\* one recipe line: load the material and check it, or throw
BatchLine(p) ==
  LET c == call[p]
      item == Recipe[c.i]
      doc == material[item.material]
      requiredQty == RequiredQty(item, c.quantity)
      materialCost == [material |-> item.material, quantity |-> requiredQty,
                       unitCostAtTime |-> doc.averageCost,
                       totalCost |-> RMul(R(requiredQty), doc.averageCost)]
  IN  /\ c.pc = "batchLine"
      /\ IF Short(doc, requiredQty)
         THEN Step(p, Returned([c EXCEPT !.missing = << Insufficient(item.material,
                                   requiredQty, doc.currentStock) >>],
                               "failed", "InsufficientMaterial"))
         ELSE Step(p, [c EXCEPT !.pc = "batchLineSave", !.materialDoc = doc,
                         !.materialCosts = Append(c.materialCosts, materialCost),
                         !.totalBatchCost = RAdd(c.totalBatchCost, materialCost.totalCost)])
      /\ UNCHANGED << material, product, batches, orders, sales, ledger, pre, done,
                      initial, callsLeft, setup >>

\* a deduction that also resets the average cost of a material it uses up
BatchLineSaveMutant(p) ==
  LET c == call[p]
      item == Recipe[c.i]
      m == item.material
      newStock == c.materialDoc.currentStock - RequiredQty(item, c.quantity)
      next == IF c.i = Len(Recipe) THEN "batchSave" ELSE "batchLine"
  IN  /\ c.pc = "batchLineSave"
      /\ IF newStock >= 0
         THEN /\ material' = [material EXCEPT ![m] =
                    [currentStock |-> newStock,
                     averageCost |-> IF newStock = 0 THEN R(0) ELSE @.averageCost]]
              /\ Step(p, [c EXCEPT !.pc = next, !.i = c.i + 1])
         ELSE /\ Fail(p, "ValidationError")
              /\ UNCHANGED material
      /\ UNCHANGED << product, batches, orders, sales, ledger, pre, done, initial,
                      callsLeft, setup >>

\* material.currentStock -= requiredQty; await material.save()
BatchLineSave(p) ==
  LET c == call[p]
      item == Recipe[c.i]
      m == item.material
      newDoc == [c.materialDoc EXCEPT !.currentStock = @ - RequiredQty(item, c.quantity)]
      next == IF c.i = Len(Recipe) THEN "batchSave" ELSE "batchLine"
  IN  /\ c.pc = "batchLineSave"
      /\ IF MaterialValid(newDoc)
         THEN /\ material' = [material EXCEPT ![m].currentStock =
                    SavePath(@, c.materialDoc.currentStock, newDoc.currentStock)]
              /\ Step(p, [c EXCEPT !.pc = next, !.i = c.i + 1])
         ELSE /\ Fail(p, "ValidationError")
              /\ UNCHANGED material
      /\ UNCHANGED << product, batches, orders, sales, ledger, pre, done, initial,
                      callsLeft, setup >>

\* a batch record that keeps the cost of the whole batch as its unit cost
NewBatchMutant(q, materialCosts, unitCost, totalCost) ==
  [NoBatch EXCEPT !.quantity = q, !.materialCosts = materialCosts,
                  !.unitCost = totalCost, !.totalCost = totalCost]

NewBatch(q, materialCosts, unitCost, totalCost) ==
  [NoBatch EXCEPT !.quantity = q, !.materialCosts = materialCosts,
                  !.unitCost = unitCost, !.totalCost = totalCost]

\* the rolling average of the product, product.save(), then batch.save()
BatchSave(p) ==
  LET c == call[p]
      unitCost == RDiv(c.totalBatchCost, R(c.quantity))
      oldTotalValue == RMul(R(c.productDoc.currentStock), c.productDoc.averageUnitCost)
      newTotalValue == RAdd(oldTotalValue, c.totalBatchCost)
      newTotalQuantity == c.productDoc.currentStock + c.quantity
      newDoc == [currentStock |-> newTotalQuantity,
                 averageUnitCost |-> RDiv(newTotalValue, R(newTotalQuantity))]
      batch == NewBatch(c.quantity, c.materialCosts, unitCost, c.totalBatchCost)
  IN  /\ c.pc = "batchSave"
      /\ IF ~ProductValid(newDoc)
         THEN /\ Fail(p, "ValidationError")
              /\ UNCHANGED << product, batches, done >>
         ELSE /\ product' = [currentStock |->
                               SavePath(product.currentStock, c.productDoc.currentStock,
                                        newDoc.currentStock),
                             averageUnitCost |->
                               SavePath(product.averageUnitCost,
                                        c.productDoc.averageUnitCost,
                                        newDoc.averageUnitCost)]
              /\ IF BatchValid(batch)
                 THEN /\ batches' = Append(batches, batch)
                      /\ done' = Append(done, [reversed |-> 0, wasted |-> 0])
                      /\ Succeed(p, [c EXCEPT !.id = Len(batches) + 1])
                 ELSE /\ Fail(p, "ValidationError")
                      /\ UNCHANGED << batches, done >>
      /\ UNCHANGED << material, orders, sales, ledger, pre, initial, callsLeft, setup >>

\* ------------------------------------- ProductionService.reverseProductionBatch
\* batch.reversedQuantity || 0 + batch.wastedQuantity || 0, which JavaScript
\* groups as  reversedQuantity || (0 + wastedQuantity) || 0
AlreadyReversedQty(batch) ==
  IF batch.reversedQuantity # 0 THEN batch.reversedQuantity
  ELSE IF 0 + batch.wastedQuantity # 0 THEN 0 + batch.wastedQuantity
  ELSE 0

\* load the batch; throw when quantity > remainingQty
ReverseStart(p, b, q) ==
  LET batch == batches[b]
      alreadyReversedQty == AlreadyReversedQty(batch)
      remainingQty == batch.quantity - alreadyReversedQty
      c == [IdleCall EXCEPT !.op = "reverse", !.quantity = q, !.id = b,
                            !.batchDoc = batch, !.alreadyQty = alreadyReversedQty]
  IN  /\ b \in 1 .. Len(batches)
      /\ IF q > remainingQty
         THEN Begin(p, Returned(c, "failed", "OverReversal"))
         ELSE Begin(p, [c EXCEPT !.pc = "reverseProduct"])
      /\ UNCHANGED << material, product, batches, orders, sales, ledger, done, initial >>

\* the product is loaded and no stock check is made
ReverseProductMutant(p) ==
  LET c == call[p]
  IN  /\ c.pc = "reverseProduct"
      /\ Step(p, [c EXCEPT !.pc = "reverseMaterial", !.i = 1, !.productDoc = product])
      /\ UNCHANGED << material, product, batches, orders, sales, ledger, pre, done,
                      initial, callsLeft, setup >>

\* load the product; throw when product.currentStock < quantity
ReverseProduct(p) ==
  LET c == call[p]
  IN  /\ c.pc = "reverseProduct"
      /\ IF product.currentStock < c.quantity
         THEN Fail(p, "CannotReverse")
         ELSE Step(p, [c EXCEPT !.pc = "reverseMaterial", !.i = 1,
                                !.productDoc = product])
      /\ UNCHANGED << material, product, batches, orders, sales, ledger, pre, done,
                      initial, callsLeft, setup >>

\* materialModel.findById(materialCost.material)
ReverseMaterial(p) ==
  LET c == call[p]
      materialCost == c.batchDoc.materialCosts[c.i]
  IN  /\ c.pc = "reverseMaterial"
      /\ Step(p, [c EXCEPT !.pc = "reverseMaterialSave",
                           !.materialDoc = material[materialCost.material]])
      /\ UNCHANGED << material, product, batches, orders, sales, ledger, pre, done,
                      initial, callsLeft, setup >>

\* a reversal that gives back the whole line whatever part is reversed
RestoreQtyMutant(materialCost, quantity, batch) == materialCost.quantity

\* ratio = quantity / batch.quantity; restoreQty = materialCost.quantity * ratio
\* (a whole number: materialCost.quantity is a multiple of batch.quantity)
RestoreQty(materialCost, quantity, batch) ==
  LET ratio == RDiv(R(quantity), R(batch.quantity))
  IN  RMul(R(materialCost.quantity), ratio).n

\* a reversal that values what it restores at the material's current average cost
ReverseMaterialSaveMutant(p) ==
  LET c == call[p]
      materialCost == c.batchDoc.materialCosts[c.i]
      m == materialCost.material
      restoreQty == RestoreQty(materialCost, c.quantity, c.batchDoc)
      previousStock == c.materialDoc.currentStock
      newStock == previousStock + restoreQty
      currentTotalValue == RMul(R(previousStock), c.materialDoc.averageCost)
      restoredValue == RMul(R(restoreQty), c.materialDoc.averageCost)
      newTotalValue == RAdd(currentTotalValue, restoredValue)
      newDoc == [currentStock |-> newStock,
                 averageCost |-> RDiv(newTotalValue, R(newStock))]
      next == IF c.i = Len(c.batchDoc.materialCosts) THEN "reverseSave"
              ELSE "reverseMaterial"
  IN  /\ c.pc = "reverseMaterialSave"
      /\ IF MaterialValid(newDoc)
         THEN /\ material' = [material EXCEPT ![m] =
                    [currentStock |-> SavePath(@.currentStock, previousStock, newStock),
                     averageCost |-> SavePath(@.averageCost, c.materialDoc.averageCost,
                                              newDoc.averageCost)]]
              /\ ledger' = Append(ledger, Adjustment(m, "material", "reversal",
                                                     restoreQty, previousStock, newStock, 0))
              /\ Step(p, [c EXCEPT !.pc = next, !.i = c.i + 1,
                            !.adjustmentIds = Append(c.adjustmentIds, Len(ledger) + 1)])
         ELSE /\ Fail(p, "ReversalFailed")
              /\ UNCHANGED << material, ledger >>
      /\ UNCHANGED << product, batches, orders, sales, pre, done, initial, callsLeft, setup >>

\* restore one material, save it, create its 'reversal' adjustment
ReverseMaterialSave(p) ==
  LET c == call[p]
      materialCost == c.batchDoc.materialCosts[c.i]
      m == materialCost.material
      restoreQty == RestoreQty(materialCost, c.quantity, c.batchDoc)
      previousStock == c.materialDoc.currentStock
      newStock == previousStock + restoreQty
      currentTotalValue == RMul(R(previousStock), c.materialDoc.averageCost)
      restoredValue == RMul(R(restoreQty), materialCost.unitCostAtTime)
      newTotalValue == RAdd(currentTotalValue, restoredValue)
      newDoc == [currentStock |-> newStock,
                 averageCost |-> RDiv(newTotalValue, R(newStock))]
      next == IF c.i = Len(c.batchDoc.materialCosts) THEN "reverseSave"
              ELSE "reverseMaterial"
  IN  /\ c.pc = "reverseMaterialSave"
      /\ IF MaterialValid(newDoc)
         THEN /\ material' = [material EXCEPT ![m] =
                    [currentStock |-> SavePath(@.currentStock, previousStock, newStock),
                     averageCost |-> SavePath(@.averageCost, c.materialDoc.averageCost,
                                              newDoc.averageCost)]]
              /\ ledger' = Append(ledger, Adjustment(m, "material", "reversal",
                                                     restoreQty, previousStock, newStock, 0))
              /\ Step(p, [c EXCEPT !.pc = next, !.i = c.i + 1,
                            !.adjustmentIds = Append(c.adjustmentIds, Len(ledger) + 1)])
         ELSE /\ Fail(p, "ReversalFailed")
              /\ UNCHANGED << material, ledger >>
      /\ UNCHANGED << product, batches, orders, sales, pre, done, initial, callsLeft, setup >>

\* finished goods that leave at the product's own average cost
ProductAfterMutant(doc, quantity, unitCost) ==
  [currentStock |-> doc.currentStock - quantity,
   averageUnitCost |-> IF doc.currentStock - quantity > 0 THEN doc.averageUnitCost
                       ELSE R(0)]

\* the product side of reverse and waste: stock, value and average after
\* `quantity` units valued at batch.unitCost leave
ProductAfter(doc, quantity, unitCost) ==
  LET previousProductStock == doc.currentStock
      newProductStock == previousProductStock - quantity
      currentTotalValue == RMul(R(previousProductStock), doc.averageUnitCost)
      removedValue == RMul(R(quantity), unitCost)
      newTotalValue == Max0(RSub(currentTotalValue, removedValue))
  IN  [currentStock |-> newProductStock,
       averageUnitCost |-> IF newProductStock > 0
                           THEN RDiv(newTotalValue, R(newProductStock))
                           ELSE R(0)]

SaveProduct(loaded, newDoc) ==
  [currentStock |-> SavePath(product.currentStock, loaded.currentStock,
                             newDoc.currentStock),
   averageUnitCost |-> SavePath(product.averageUnitCost, loaded.averageUnitCost,
                                newDoc.averageUnitCost)]

\* batch.reversedQuantity = alreadyReversedQty + quantity, the closure
\* fields and the adjustment list
ReversedBatch(batch, alreadyReversedQty, quantity, adjustments) ==
  LET reversedQuantity == alreadyReversedQty + quantity
  IN  [batch EXCEPT !.reversedQuantity = reversedQuantity,
                    !.isReversed = IF reversedQuantity >= batch.quantity THEN TRUE ELSE @,
                    !.reversalAdjustments = @ \o adjustments]

\* batch.save() after an array path was assigned: the update carries the
\* loaded version and fails (VersionError) when the stored one has moved on
SaveBatch(b, loaded, newDoc) ==
  [batches EXCEPT ![b] =
     [quantity |-> @.quantity, materialCosts |-> @.materialCosts,
      unitCost |-> @.unitCost, totalCost |-> @.totalCost,
      reversedQuantity |-> SavePath(@.reversedQuantity, loaded.reversedQuantity,
                                    newDoc.reversedQuantity),
      wastedQuantity |-> SavePath(@.wastedQuantity, loaded.wastedQuantity,
                                  newDoc.wastedQuantity),
      isReversed |-> SavePath(@.isReversed, loaded.isReversed, newDoc.isReversed),
      isWasted |-> SavePath(@.isWasted, loaded.isWasted, newDoc.isWasted),
      reversalAdjustments |-> SavePath(@.reversalAdjustments, loaded.reversalAdjustments,
                                       newDoc.reversalAdjustments),
      wasteAdjustments |-> SavePath(@.wasteAdjustments, loaded.wasteAdjustments,
                                    newDoc.wasteAdjustments),
      v |-> @.v + 1]]

\* remove the finished goods, create the product adjustment, update the batch
ReverseSave(p) ==
  LET c == call[p]
      b == c.id
      newDoc == ProductAfter(c.productDoc, c.quantity, c.batchDoc.unitCost)
      productAdjustment == Adjustment("P", "product", "reversal", 0 - c.quantity,
                                      c.productDoc.currentStock, newDoc.currentStock, 0)
      ids == Append(c.adjustmentIds, Len(ledger) + 1)
      newBatch == ReversedBatch(c.batchDoc, c.alreadyQty, c.quantity, ids)
  IN  /\ c.pc = "reverseSave"
      /\ IF ~ProductValid(newDoc)
         THEN /\ Fail(p, "ReversalFailed")
              /\ UNCHANGED << product, ledger, batches, done >>
         ELSE /\ product' = SaveProduct(c.productDoc, newDoc)
              /\ ledger' = Append(ledger, productAdjustment)
              /\ IF batches[b].v = c.batchDoc.v
                 THEN /\ batches' = SaveBatch(b, c.batchDoc, newBatch)
                      /\ done' = [done EXCEPT ![b].reversed = @ + c.quantity]
                      /\ Succeed(p, [c EXCEPT !.adjustmentIds = ids])
                 ELSE /\ Fail(p, "ReversalFailed")
                      /\ UNCHANGED << batches, done >>
      /\ UNCHANGED << material, orders, sales, pre, initial, callsLeft, setup >>

\* ------------------------------------------- ProductionService.canReverseBatch
\* a check that closes the batch it was asked about
CanReverseProductMutant(p) ==
  LET c == call[p]
  IN  /\ c.pc = "canReverseProduct"
      /\ batches' = [batches EXCEPT ![c.id].isReversed = TRUE]
      /\ Succeed(p, c)
      /\ UNCHANGED << material, product, orders, sales, ledger, pre, done,
                      initial, callsLeft, setup >>

\* load the batch; { canReverse: false, reason: 'Batch already reversed' }
\* when batch.isReversed
CanReverseStart(p, b) ==
  LET batch == batches[b]
      c == [IdleCall EXCEPT !.op = "canReverse", !.id = b, !.batchDoc = batch]
  IN  /\ b \in 1 .. Len(batches)
      /\ IF batch.isReversed
         THEN Begin(p, Returned(c, "done", "BatchAlreadyReversed"))
         ELSE Begin(p, [c EXCEPT !.pc = "canReverseProduct"])
      /\ UNCHANGED << material, product, batches, orders, sales, ledger, done, initial >>

\* load the product (it exists); { canReverse: true }
CanReverseProduct(p) ==
  LET c == call[p]
  IN  /\ c.pc = "canReverseProduct"
      /\ Succeed(p, c)
      /\ UNCHANGED << material, product, batches, orders, sales, ledger, pre, done,
                      initial, callsLeft, setup >>

\* ------------------------------------- ProductionService.wasteProductionBatch
\* (batch.reversedQuantity || 0) + (batch.wastedQuantity || 0)
AlreadyWastedQty(batch) == batch.reversedQuantity + batch.wastedQuantity

\* load the batch; throw when quantity > remainingQty
WasteStart(p, b, q) ==
  LET batch == batches[b]
      alreadyWastedQty == AlreadyWastedQty(batch)
      remainingQty == batch.quantity - alreadyWastedQty
      c == [IdleCall EXCEPT !.op = "waste", !.quantity = q, !.id = b,
                            !.batchDoc = batch, !.alreadyQty = alreadyWastedQty]
  IN  /\ b \in 1 .. Len(batches)
      /\ IF q > remainingQty
         THEN Begin(p, Returned(c, "failed", "OverReversal"))
         ELSE Begin(p, [c EXCEPT !.pc = "wasteProduct"])
      /\ UNCHANGED << material, product, batches, orders, sales, ledger, done, initial >>

\* a waste that goes on to restore the materials as a reversal does
WasteProductMutant(p) ==
  LET c == call[p]
  IN  /\ c.pc = "wasteProduct"
      /\ IF product.currentStock < c.quantity
         THEN Fail(p, "CannotWaste")
         ELSE Step(p, [c EXCEPT !.pc = "reverseMaterial", !.i = 1, !.productDoc = product])
      /\ UNCHANGED << material, product, batches, orders, sales, ledger, pre, done,
                      initial, callsLeft, setup >>

\* load the product; throw when product.currentStock < quantity
WasteProduct(p) ==
  LET c == call[p]
  IN  /\ c.pc = "wasteProduct"
      /\ IF product.currentStock < c.quantity
         THEN Fail(p, "CannotWaste")
         ELSE Step(p, [c EXCEPT !.pc = "wasteSave", !.productDoc = product])
      /\ UNCHANGED << material, product, batches, orders, sales, ledger, pre, done,
                      initial, callsLeft, setup >>

\* batch.wastedQuantity = (batch.wastedQuantity || 0) + quantity;
\* batch.isWasted = batch.wastedQuantity >= batch.quantity
WastedBatch(batch, quantity, adjustment) ==
  LET wastedQuantity == batch.wastedQuantity + quantity
  IN  [batch EXCEPT !.wastedQuantity = wastedQuantity,
                    !.isWasted = wastedQuantity >= batch.quantity,
                    !.wasteAdjustments = Append(@, adjustment)]

\* remove the finished goods, create the 'waste' adjustment, update the batch
WasteSave(p) ==
  LET c == call[p]
      b == c.id
      newDoc == ProductAfter(c.productDoc, c.quantity, c.batchDoc.unitCost)
      productAdjustment == Adjustment("P", "product", "waste", 0 - c.quantity,
                                      c.productDoc.currentStock, newDoc.currentStock, 0)
      newBatch == WastedBatch(c.batchDoc, c.quantity, Len(ledger) + 1)
  IN  /\ c.pc = "wasteSave"
      /\ IF ~ProductValid(newDoc)
         THEN /\ Fail(p, "ValidationError")
              /\ UNCHANGED << product, ledger, batches, done >>
         ELSE /\ product' = SaveProduct(c.productDoc, newDoc)
              /\ ledger' = Append(ledger, productAdjustment)
              /\ IF batches[b].v = c.batchDoc.v
                 THEN /\ batches' = SaveBatch(b, c.batchDoc, newBatch)
                      /\ done' = [done EXCEPT ![b].wasted = @ + c.quantity]
                      /\ Succeed(p, [c EXCEPT !.adjustmentIds = << Len(ledger) + 1 >>])
                 ELSE /\ Fail(p, "VersionError")
                      /\ UNCHANGED << batches, done >>
      /\ UNCHANGED << material, orders, sales, pre, initial, callsLeft, setup >>

\* ------- ProductionService.wasteProductionBatch, as first written
\* (src/modules/production/services/production.service.ts)
\* load the batch; throw when quantity > remainingQty, with alreadyReversedQty
\* computed by the same expression as in reverseProductionBatch
WasteStartV1(p, b, q) ==
  LET batch == batches[b]
      alreadyReversedQty == AlreadyReversedQty(batch)
      remainingQty == batch.quantity - alreadyReversedQty
      c == [IdleCall EXCEPT !.op = "waste", !.quantity = q, !.id = b,
                            !.batchDoc = batch, !.alreadyQty = alreadyReversedQty]
  IN  /\ b \in 1 .. Len(batches)
      /\ IF q > remainingQty
         THEN Begin(p, Returned(c, "failed", "OverReversal"))
         ELSE Begin(p, [c EXCEPT !.pc = "wasteProductV1"])
      /\ UNCHANGED << material, product, batches, orders, sales, ledger, done, initial >>

\* batch.wastedQuantity = quantity; batch.isWasted = remainingQty - quantity === 0
WastedBatchV1(batch, alreadyReversedQty, quantity) ==
  [batch EXCEPT !.wastedQuantity = quantity,
                !.isWasted = ((batch.quantity - alreadyReversedQty) - quantity = 0)]

\* batch.save() of scalar paths only: no version check
SaveBatchFields(b, loaded, newDoc) ==
  [batches EXCEPT ![b] =
     [@ EXCEPT !.wastedQuantity = SavePath(@, loaded.wastedQuantity, newDoc.wastedQuantity),
               !.isWasted = SavePath(@, loaded.isWasted, newDoc.isWasted)]]

\* load the product; throw when product.currentStock < quantity; else save
\* the batch with its new wastedQuantity and isWasted
WasteProductV1(p) ==
  LET c == call[p]
      newBatch == WastedBatchV1(c.batchDoc, c.alreadyQty, c.quantity)
  IN  /\ c.pc = "wasteProductV1"
      /\ IF product.currentStock < c.quantity
         THEN /\ Fail(p, "CannotReverse")
              /\ UNCHANGED batches
         ELSE /\ batches' = SaveBatchFields(c.id, c.batchDoc, newBatch)
              /\ Step(p, [c EXCEPT !.pc = "wasteSaveV1", !.productDoc = product,
                                   !.batchDoc = newBatch])
      /\ UNCHANGED << material, product, orders, sales, ledger, pre, done,
                      initial, callsLeft, setup >>

\* batch.reversedQuantity = alreadyReversedQty + quantity, the closure flag,
\* batch.wasteAdjustments = [...reversalAdjustments, productAdjustment._id]
WasteReversedBatchV1(batch, alreadyReversedQty, quantity, adjustment) ==
  LET reversedQuantity == alreadyReversedQty + quantity
  IN  [batch EXCEPT !.reversedQuantity = reversedQuantity,
                    !.isReversed = IF reversedQuantity >= batch.quantity THEN TRUE ELSE @,
                    !.wasteAdjustments = Append(batch.reversalAdjustments, adjustment)]

\* remove the finished goods, create the 'waste' adjustment, save the batch again
WasteSaveV1(p) ==
  LET c == call[p]
      b == c.id
      newDoc == ProductAfter(c.productDoc, c.quantity, c.batchDoc.unitCost)
      productAdjustment == Adjustment("P", "product", "waste", 0 - c.quantity,
                                      c.productDoc.currentStock, newDoc.currentStock, 0)
      newBatch == WasteReversedBatchV1(c.batchDoc, c.alreadyQty, c.quantity, Len(ledger) + 1)
  IN  /\ c.pc = "wasteSaveV1"
      /\ IF ~ProductValid(newDoc)
         THEN /\ Fail(p, "ValidationError")
              /\ UNCHANGED << product, ledger, batches, done >>
         ELSE /\ product' = SaveProduct(c.productDoc, newDoc)
              /\ ledger' = Append(ledger, productAdjustment)
              /\ IF batches[b].v = c.batchDoc.v
                 THEN /\ batches' = SaveBatch(b, c.batchDoc, newBatch)
                      /\ done' = [done EXCEPT ![b].wasted = @ + c.quantity]
                      /\ Succeed(p, [c EXCEPT !.adjustmentIds = << Len(ledger) + 1 >>])
                 ELSE /\ Fail(p, "VersionError")
                      /\ UNCHANGED << batches, done >>
      /\ UNCHANGED << material, orders, sales, pre, initial, callsLeft, setup >>

\* ------------------------------------------------------- SalesService.create
\* an availability check that stops at the first short recipe line
MissingMaterialsMutant(i, q) ==
  LET short == { j \in i .. Len(Recipe) :
                   material[Recipe[j].material].currentStock < Recipe[j].quantity * q }
      first == CHOOSE j \in short : \A k \in short : j <= k
  IN  IF short = {} THEN << >>
      ELSE << [material |-> Recipe[first].material,
               required |-> Recipe[first].quantity * q,
               available |-> material[Recipe[first].material].currentStock,
               shortage |-> Recipe[first].quantity * q
                              - material[Recipe[first].material].currentStock] >>

\* ProductsService.checkMaterialAvailability: one entry per short recipe line
RECURSIVE MissingMaterials(_, _)
MissingMaterials(i, q) ==
  IF i > Len(Recipe) THEN << >>
  ELSE LET item == Recipe[i]
           requiredQuantity == item.quantity * q
           doc == material[item.material]
       IN  (IF doc.currentStock < requiredQuantity
            THEN << [material |-> item.material, required |-> requiredQuantity,
                     available |-> doc.currentStock,
                     shortage |-> requiredQuantity - doc.currentStock] >>
            ELSE << >>) \o MissingMaterials(i + 1, q)

\* the availability check of create: throw when a recipe line is short
SaleStart(p, q) ==
  LET missingMaterials == MissingMaterials(1, q)
      c == [IdleCall EXCEPT !.op = "sale", !.quantity = q]
  IN  /\ IF Len(missingMaterials) # 0
         THEN Begin(p, Returned([c EXCEPT !.missing = missingMaterials], "failed",
                                 "InsufficientMaterials"))
         ELSE Begin(p, [c EXCEPT !.pc = "saleLoad"])
      /\ UNCHANGED << material, product, batches, orders, sales, ledger, done, initial >>

\* handleSaleDeduction: findById(productId).populate('recipe.material recipe.unit')
SaleLoad(p) ==
  LET c == call[p]
  IN  /\ c.pc = "saleLoad"
      /\ Step(p, [c EXCEPT !.pc = "saleLine", !.i = 1, !.recipeDocs = material])
      /\ UNCHANGED << material, product, batches, orders, sales, ledger, pre, done,
                      initial, callsLeft, setup >>

\* one recipe line of handleSaleDeduction, on the populated material
SaleLine(p) ==
  LET c == call[p]
      recipeItem == Recipe[c.i]
      m == recipeItem.material
      requiredQty == recipeItem.quantity * c.quantity
      previousStock == c.recipeDocs[m].currentStock
      newStock == previousStock - requiredQty
      next == IF c.i = Len(Recipe) THEN "saleSave" ELSE "saleLine"
  IN  /\ c.pc = "saleLine"
      /\ IF newStock < 0
         THEN /\ Fail(p, "InsufficientStock")
              /\ UNCHANGED << material, ledger >>
         ELSE IF ~MaterialValid([c.recipeDocs[m] EXCEPT !.currentStock = newStock])
         THEN /\ Fail(p, "ValidationError")
              /\ UNCHANGED << material, ledger >>
         ELSE /\ material' = [material EXCEPT ![m].currentStock =
                                SavePath(@, previousStock, newStock)]
              /\ ledger' = Append(ledger, Adjustment(m, "material", "sale",
                                    0 - requiredQty, previousStock, newStock, 0))
              /\ Step(p, [c EXCEPT !.pc = next, !.i = c.i + 1,
                            !.adjustmentIds = Append(c.adjustmentIds, Len(ledger) + 1)])
      /\ UNCHANGED << product, batches, orders, sales, pre, done, initial, callsLeft, setup >>

\* Sale: quantity {min: 1}
SaleValid(doc) == doc.quantity >= 1

\* a sale that also takes the units sold out of the finished goods
SaleSaveMutant(p) ==
  LET c == call[p]
      sale == [quantity |-> c.quantity, stockAdjustments |-> c.adjustmentIds,
               status |-> "completed"]
  IN  /\ c.pc = "saleSave"
      /\ sales' = Append(sales, sale)
      /\ product' = [product EXCEPT !.currentStock = @ - c.quantity]
      /\ Succeed(p, [c EXCEPT !.id = Len(sales) + 1])
      /\ UNCHANGED << material, batches, orders, ledger, pre, done, initial,
                      callsLeft, setup >>

\* new saleModel({...saleDto, stockAdjustments}).save()
SaleSave(p) ==
  LET c == call[p]
      sale == [quantity |-> c.quantity, stockAdjustments |-> c.adjustmentIds,
               status |-> "completed"]
  IN  /\ c.pc = "saleSave"
      /\ IF SaleValid(sale)
         THEN /\ sales' = Append(sales, sale)
              /\ Succeed(p, [c EXCEPT !.id = Len(sales) + 1])
         ELSE /\ Fail(p, "ValidationError")
              /\ UNCHANGED sales
      /\ UNCHANGED << material, product, batches, orders, ledger, pre, done, initial,
                      callsLeft, setup >>

\* ------------------------------------------------------ SalesService.voidSale
\* findById(id).populate('stockAdjustments'): the status is not looked at
VoidStart(p, s) ==
  LET sale == sales[s]
      c == [IdleCall EXCEPT !.op = "void", !.id = s, !.saleDoc = sale, !.i = 1]
  IN  /\ s \in 1 .. Len(sales)
      /\ Begin(p, [c EXCEPT !.pc = IF Len(sale.stockAdjustments) = 0
                                   THEN "voidSave" ELSE "voidAdjustment"])
      /\ UNCHANGED << material, product, batches, orders, sales, ledger, done, initial >>

\* reverseSaleAdjustments: load the original adjustment and its material
VoidAdjustment(p) ==
  LET c == call[p]
      originalAdjustment == ledger[c.saleDoc.stockAdjustments[c.i]]
  IN  /\ c.pc = "voidAdjustment"
      /\ Step(p, [c EXCEPT !.pc = "voidAdjustmentSave",
                           !.materialDoc = material[originalAdjustment.item]])
      /\ UNCHANGED << material, product, batches, orders, sales, ledger, pre, done,
                      initial, callsLeft, setup >>

\* restore the material, create the 'return' adjustment, mark the original
VoidAdjustmentSave(p) ==
  LET c == call[p]
      adjustmentId == c.saleDoc.stockAdjustments[c.i]
      originalAdjustment == ledger[adjustmentId]
      m == originalAdjustment.item
      reversalQuantity == 0 - originalAdjustment.quantity
      previousStock == c.materialDoc.currentStock
      newStock == previousStock + reversalQuantity
      reversalId == Len(ledger) + 1
      next == IF c.i = Len(c.saleDoc.stockAdjustments) THEN "voidSave"
              ELSE "voidAdjustment"
  IN  /\ c.pc = "voidAdjustmentSave"
      /\ IF MaterialValid([c.materialDoc EXCEPT !.currentStock = newStock])
         THEN /\ material' = [material EXCEPT ![m].currentStock =
                                SavePath(@, previousStock, newStock)]
              /\ ledger' = Append([ledger EXCEPT ![adjustmentId].isReversed = TRUE,
                                                 ![adjustmentId].reversalAdjustment = reversalId],
                                  Adjustment(m, "material", "return", reversalQuantity,
                                             previousStock, newStock, adjustmentId))
              /\ Step(p, [c EXCEPT !.pc = next, !.i = c.i + 1,
                            !.adjustmentIds = Append(c.adjustmentIds, reversalId)])
         ELSE /\ Fail(p, "ValidationError")
              /\ UNCHANGED << material, ledger >>
      /\ UNCHANGED << product, batches, orders, sales, pre, done, initial, callsLeft, setup >>

\* sale.status = 'voided'; sale.save()
VoidSave(p) ==
  LET c == call[p]
  IN  /\ c.pc = "voidSave"
      /\ sales' = [sales EXCEPT ![c.id].status = "voided"]
      /\ Succeed(p, c)
      /\ UNCHANGED << material, product, batches, orders, ledger, pre, done, initial,
                      callsLeft, setup >>

\* ------------------------------------------- MaterialOrderService.createOrder
OrderStart(p, m, q, totalCost) ==
  /\ Begin(p, [IdleCall EXCEPT !.op = "order", !.pc = "orderSave", !.item = m,
                               !.quantity = q, !.totalCost = totalCost,
                               !.materialDoc = material[m]])
  /\ UNCHANGED << material, product, batches, orders, sales, ledger, done, initial >>

\* MaterialOrder: quantity {min: 0}, totalCost {min: 0}, unitCost {min: 0}
OrderValid(doc) == doc.quantity >= 0 /\ doc.totalCost >= 0 /\ MinZero(doc.unitCost)

\* the rolling average of the material, material.save(), then order.save()
OrderSave(p) ==
  LET c == call[p]
      m == c.item
      unitCost == RDiv(R(c.totalCost), R(c.quantity))
      oldTotalValue == RMul(R(c.materialDoc.currentStock), c.materialDoc.averageCost)
      newTotalValue == RAdd(oldTotalValue, R(c.totalCost))
      newTotalQuantity == c.materialDoc.currentStock + c.quantity
      newDoc == [currentStock |-> newTotalQuantity,
                 averageCost |-> RDiv(newTotalValue, R(newTotalQuantity))]
      order == [material |-> m, quantity |-> c.quantity, totalCost |-> c.totalCost,
                unitCost |-> unitCost, deleted |-> FALSE]
  IN  /\ c.pc = "orderSave"
      /\ IF ~MaterialValid(newDoc)
         THEN /\ Fail(p, "ValidationError")
              /\ UNCHANGED << material, orders >>
         ELSE /\ material' = [material EXCEPT ![m] =
                    [currentStock |-> SavePath(@.currentStock, c.materialDoc.currentStock,
                                               newDoc.currentStock),
                     averageCost |-> SavePath(@.averageCost, c.materialDoc.averageCost,
                                              newDoc.averageCost)]]
              /\ IF OrderValid(order)
                 THEN /\ orders' = Append(orders, order)
                      /\ Succeed(p, [c EXCEPT !.id = Len(orders) + 1])
                 ELSE /\ Fail(p, "ValidationError")
                      /\ UNCHANGED orders
      /\ UNCHANGED << product, batches, sales, ledger, pre, done, initial, callsLeft, setup >>

\* ------------------------------------------- MaterialOrderService.deleteOrder
\* load the order and its material; throw when the stock was already used
DeleteStart(p, o) ==
  LET order == orders[o]
      doc == material[order.material]
      c == [IdleCall EXCEPT !.op = "delete", !.id = o, !.orderDoc = order,
                            !.item = order.material, !.materialDoc = doc]
  IN  /\ o \in 1 .. Len(orders)
      /\ IF order.deleted
         THEN Begin(p, Returned(c, "failed", "OrderNotFound"))
         ELSE IF doc.currentStock < order.quantity
         THEN Begin(p, Returned(c, "failed", "StockAlreadyUsed"))
         ELSE Begin(p, [c EXCEPT !.pc = "deleteSave"])
      /\ UNCHANGED << material, product, batches, orders, sales, ledger, done, initial >>

\* inside connection.transaction: recompute the average, material.save(),
\* orderModel.deleteOne
DeleteSave(p) ==
  LET c == call[p]
      m == c.item
      order == c.orderDoc
      previousStock == c.materialDoc.currentStock
      newStock == previousStock - order.quantity
      currentTotalValue == RMul(R(previousStock), c.materialDoc.averageCost)
      removedValue == RMul(R(order.quantity), order.unitCost)
      newTotalValue == Max0(RSub(currentTotalValue, removedValue))
      newDoc == [currentStock |-> newStock,
                 averageCost |-> IF newStock > 0 THEN RDiv(newTotalValue, R(newStock))
                                 ELSE R(0)]
  IN  /\ c.pc = "deleteSave"
      /\ IF MaterialValid(newDoc)
         THEN /\ material' = [material EXCEPT ![m] =
                    [currentStock |-> SavePath(@.currentStock, previousStock, newStock),
                     averageCost |-> SavePath(@.averageCost, c.materialDoc.averageCost,
                                              newDoc.averageCost)]]
              /\ orders' = [orders EXCEPT ![c.id].deleted = TRUE]
              /\ Succeed(p, c)
         ELSE /\ Fail(p, "ValidationError")
              /\ UNCHANGED << material, orders >>
      /\ UNCHANGED << product, batches, sales, ledger, pre, done, initial, callsLeft, setup >>

\* ------------------------------ StockAdjustmentsService.createManualAdjustment
Items == Materials \cup {"P"}

ItemType(item) == IF item = "P" THEN "product" ELSE "material"

StockOf(item) == IF item = "P" THEN product.currentStock ELSE material[item].currentStock

\* a 'correction' taken for a change of the stock instead of its new value
ManualNewStockMutant(previousStock, quantity, type) ==
  IF type = "decrease" THEN previousStock - quantity
  ELSE previousStock + quantity

ManualNewStock(previousStock, quantity, type) ==
  IF type = "increase" THEN previousStock + quantity
  ELSE IF type = "decrease" THEN previousStock - quantity
  ELSE quantity

\* load the item and compute the new stock; throw when it is negative
ManualStart(p, item, q, type) ==
  LET previousStock == StockOf(item)
      newStock == ManualNewStock(previousStock, q, type)
      c == [IdleCall EXCEPT !.op = "manual", !.item = item, !.kind = type,
                            !.quantity = q, !.newStock = newStock,
                            !.materialDoc = [NoDoc EXCEPT !.currentStock = previousStock]]
  IN  /\ IF newStock < 0
         THEN Begin(p, Returned(c, "failed", "StockCannotBeNegative"))
         ELSE Begin(p, [c EXCEPT !.pc = "manualSave"])
      /\ UNCHANGED << material, product, batches, orders, sales, ledger, done, initial >>

\* item.save() and the adjustment record
ManualSave(p) ==
  LET c == call[p]
      previousStock == c.materialDoc.currentStock
      quantity == IF c.kind = "increase" THEN c.quantity
                  ELSE IF c.kind = "decrease" THEN 0 - c.quantity
                  ELSE c.quantity - previousStock
      adjustmentType == IF c.kind = "decrease" THEN "breakage" ELSE "correction"
  IN  /\ c.pc = "manualSave"
      /\ IF c.item = "P"
         THEN /\ product' = [product EXCEPT !.currentStock =
                               SavePath(@, previousStock, c.newStock)]
              /\ UNCHANGED material
         ELSE /\ material' = [material EXCEPT ![c.item].currentStock =
                                SavePath(@, previousStock, c.newStock)]
              /\ UNCHANGED product
      /\ ledger' = Append(ledger, Adjustment(c.item, ItemType(c.item), adjustmentType,
                                             quantity, previousStock, c.newStock, 0))
      /\ Succeed(p, c)
      /\ UNCHANGED << batches, orders, sales, pre, done, initial, callsLeft, setup >>

\* ------------------------------------------------------------ specifications
\* total cost of a purchase order
OrderCost == 2

\* largest quantity of a manual adjustment
MaxAdjust == 1

ManualTypes == {"increase", "decrease", "correction"}

Request(op, q, item, totalCost) ==
  [op |-> op, quantity |-> q, item |-> item, totalCost |-> totalCost]

\* a batch of two units, a purchase of material A and a sale of one unit
Populate == << Request("batch", 2, "", 0), Request("order", 1, "A", OrderCost),
               Request("sale", 1, "", 0) >>

\* materials for four units of product, then the populating requests
Init ==
  /\ InitDb(20, 12)
  /\ callsLeft = MaxCalls
  /\ setup = Populate

\* every service, any two requests interleaved
Next ==
  \E p \in Procs :
    \/ \E q \in Quantities : BatchStart(p, q)
    \/ BatchLine(p)
    \/ BatchLineSave(p)
    \/ BatchSave(p)
    \/ \E b \in 1 .. Len(batches), q \in Quantities : ReverseStart(p, b, q)
    \/ ReverseProduct(p)
    \/ ReverseMaterial(p)
    \/ ReverseMaterialSave(p)
    \/ ReverseSave(p)
    \/ \E b \in 1 .. Len(batches), q \in Quantities : WasteStart(p, b, q)
    \/ WasteProduct(p)
    \/ WasteSave(p)
    \/ \E q \in Quantities : SaleStart(p, q)
    \/ SaleLoad(p)
    \/ SaleLine(p)
    \/ SaleSave(p)
    \/ \E s \in 1 .. Len(sales) : VoidStart(p, s)
    \/ VoidAdjustment(p)
    \/ VoidAdjustmentSave(p)
    \/ VoidSave(p)
    \/ \E m \in Materials, q \in 1 .. MaxQty : OrderStart(p, m, q, OrderCost)
    \/ OrderSave(p)
    \/ \E o \in 1 .. Len(orders) : DeleteStart(p, o)
    \/ DeleteSave(p)
    \/ \E item \in Items, q \in 1 .. MaxAdjust, type \in ManualTypes :
         ManualStart(p, item, q, type)
    \/ ManualSave(p)

Spec == Init /\ [][Next]_vars

\* number of service calls started after the populating ones in SpecSeq
MaxSeqCalls == 3

\* every service, one request at a time, after the populating requests
InitSeq ==
  /\ InitDb(20, 12)
  /\ callsLeft = MaxSeqCalls
  /\ setup = Populate

NextSeq ==
  \E p \in {1} :
    \/ \E q \in Quantities : BatchStart(p, q)
    \/ BatchLine(p)
    \/ BatchLineSave(p)
    \/ BatchSave(p)
    \/ \E b \in 1 .. Len(batches), q \in Quantities : ReverseStart(p, b, q)
    \/ ReverseProduct(p)
    \/ ReverseMaterial(p)
    \/ ReverseMaterialSave(p)
    \/ ReverseSave(p)
    \/ \E b \in 1 .. Len(batches) : CanReverseStart(p, b)
    \/ CanReverseProduct(p)
    \/ \E b \in 1 .. Len(batches), q \in Quantities : WasteStart(p, b, q)
    \/ WasteProduct(p)
    \/ WasteSave(p)
    \/ \E q \in Quantities : SaleStart(p, q)
    \/ SaleLoad(p)
    \/ SaleLine(p)
    \/ SaleSave(p)
    \/ \E s \in 1 .. Len(sales) : VoidStart(p, s)
    \/ VoidAdjustment(p)
    \/ VoidAdjustmentSave(p)
    \/ VoidSave(p)
    \/ \E m \in Materials, q \in 1 .. MaxQty : OrderStart(p, m, q, OrderCost)
    \/ OrderSave(p)
    \/ \E o \in 1 .. Len(orders) : DeleteStart(p, o)
    \/ DeleteSave(p)
    \/ \E item \in Items, q \in 1 .. MaxAdjust, type \in ManualTypes :
         ManualStart(p, item, q, type)
    \/ ManualSave(p)

SpecSeq == InitSeq /\ [][NextSeq]_vars

\* number of purchases in one behaviour of SpecOrder
MaxOrderCalls == 3

\* quantities and total costs of the purchases of SpecOrder
OrderQuantities == {5, 10}

OrderCosts == {50, 100}

\* purchases only, one at a time, into an empty stock
InitOrder ==
  /\ InitDb(0, 0)
  /\ callsLeft = MaxOrderCalls
  /\ setup = << >>

NextOrder ==
  \E p \in {1} :
    \/ \E m \in Materials, q \in OrderQuantities, totalCost \in OrderCosts :
         OrderStart(p, m, q, totalCost)
    \/ OrderSave(p)

SpecOrder == InitOrder /\ [][NextOrder]_vars

\* the production services, one request at a time, valid quantities
BatchStocks == { <<15, 9>>, <<10, 5>> }

InitBatch ==
  /\ \E s \in BatchStocks : InitDb(s[1], s[2])
  /\ callsLeft = MaxBatchCalls
  /\ setup = << >>

NextBatch ==
  \E p \in {1} :
    \/ \E q \in 1 .. MaxQty : BatchStart(p, q)
    \/ BatchLine(p)
    \/ BatchLineSave(p)
    \/ BatchSave(p)
    \/ \E b \in 1 .. Len(batches), q \in 1 .. MaxQty : ReverseStart(p, b, q)
    \/ ReverseProduct(p)
    \/ ReverseMaterial(p)
    \/ ReverseMaterialSave(p)
    \/ ReverseSave(p)
    \/ \E b \in 1 .. Len(batches), q \in 1 .. MaxQty : WasteStart(p, b, q)
    \/ WasteProduct(p)
    \/ WasteSave(p)

SpecBatch == InitBatch /\ [][NextBatch]_vars

\* createProductionBatch and wasteProductionBatch as first written, one
\* request at a time, valid quantities
NextWasteV1 ==
  \E p \in {1} :
    \/ \E q \in 1 .. MaxQty : BatchStart(p, q)
    \/ BatchLine(p)
    \/ BatchLineSave(p)
    \/ BatchSave(p)
    \/ \E b \in 1 .. Len(batches), q \in 1 .. MaxQty : WasteStartV1(p, b, q)
    \/ WasteProductV1(p)
    \/ WasteSaveV1(p)

SpecWasteV1 == InitBatch /\ [][NextWasteV1]_vars

\* two sale requests racing for the same material
InitRace ==
  /\ InitDb(5, 6)
  /\ callsLeft = 2
  /\ setup = << >>

NextRace ==
  \E p \in Procs :
    \/ \E q \in 1 .. MaxQty : SaleStart(p, q)
    \/ SaleLoad(p)
    \/ SaleLine(p)
    \/ SaleSave(p)

SpecRace == InitRace /\ [][NextRace]_vars

\* two reverse / waste requests racing for the units of one batch of two
InitBatchRace ==
  /\ InitDb(10, 6)
  /\ callsLeft = 2
  /\ setup = << Request("batch", 2, "", 0) >>

NextBatchRace ==
  \E p \in Procs :
    \/ \E q \in 1 .. MaxQty : BatchStart(p, q)
    \/ BatchLine(p)
    \/ BatchLineSave(p)
    \/ BatchSave(p)
    \/ \E b \in 1 .. Len(batches), q \in 1 .. MaxQty : ReverseStart(p, b, q)
    \/ ReverseProduct(p)
    \/ ReverseMaterial(p)
    \/ ReverseMaterialSave(p)
    \/ ReverseSave(p)
    \/ \E b \in 1 .. Len(batches), q \in 1 .. MaxQty : WasteStart(p, b, q)
    \/ WasteProduct(p)
    \/ WasteSave(p)

SpecBatchRace == InitBatchRace /\ [][NextBatchRace]_vars

\* a purchase of each material, then two deleteOrder requests at the same time
DeleteRaceStocks == {0, 1, 4}

InitDeleteRace ==
  /\ \E s \in DeleteRaceStocks : InitDb(s, s)
  /\ callsLeft = 2
  /\ setup = << Request("order", 1, "A", OrderCost), Request("order", 2, "B", OrderCost) >>

NextDeleteRace ==
  \E p \in Procs :
    \/ /\ setup # << >>
       /\ \E m \in Materials, q \in 1 .. MaxQty : OrderStart(p, m, q, OrderCost)
    \/ OrderSave(p)
    \/ \E o \in 1 .. Len(orders) : DeleteStart(p, o)
    \/ DeleteSave(p)

SpecDeleteRace == InitDeleteRace /\ [][NextDeleteRace]_vars

\* one purchase and, at once, the deletion of that order, from any starting
\* stock and average cost (a stock of 0 keeps the average cost of the units
\* that were consumed: a purchase followed by a sale of everything bought)
RoundTripStocks == {0, 1, 4}

RoundTripCosts == {R(0), R(1), R(3), RDiv(R(1), R(2))}

InitRoundTrip ==
  /\ \E s \in [Materials -> RoundTripStocks], a \in [Materials -> RoundTripCosts] :
       material = [m \in Materials |-> [currentStock |-> s[m], averageCost |-> a[m]]]
  /\ product = [currentStock |-> 0, averageUnitCost |-> R(0)]
  /\ batches = << >>
  /\ orders = << >>
  /\ sales = << >>
  /\ ledger = << >>
  /\ call = [p \in Procs |-> IdleCall]
  /\ pre = [p \in Procs |-> db]
  /\ done = << >>
  /\ initial = [m \in Materials \cup {"P"} |->
                  IF m = "P" THEN 0 ELSE material[m].currentStock]
  /\ callsLeft = 2
  /\ setup = << >>

\* slot 1 only: slot 2 never starts a call, pre[2] stays the initial database
NextRoundTrip ==
  \E p \in {1} :
    \/ /\ orders = << >>
       /\ \E m \in Materials, q \in 1 .. MaxQty, totalCost \in 1 .. OrderCost :
            OrderStart(p, m, q, totalCost)
    \/ OrderSave(p)
    \/ \E o \in 1 .. Len(orders) : DeleteStart(p, o)
    \/ DeleteSave(p)

SpecRoundTrip == InitRoundTrip /\ [][NextRoundTrip]_vars

\* manual adjustments only, any two interleaved, with quantities and targets
\* below zero as well
ManualQuantities == (0 - NegQty) .. MaxQty

ManualStocks == {0, 1}

InitManual ==
  /\ \E s \in ManualStocks : InitDb(s, s)
  /\ callsLeft = 2
  /\ setup = << >>

NextManual ==
  \E p \in Procs :
    \/ \E item \in Items, q \in ManualQuantities, type \in ManualTypes :
         ManualStart(p, item, q, type)
    \/ ManualSave(p)

SpecManual == InitManual /\ [][NextManual]_vars

\* ------------------------------------------------------------------- claims
Budget(batch) == batch.quantity - (batch.reversedQuantity + batch.wastedQuantity)

\* the database is as it was when the call of slot p started
Untouched(p) ==
  /\ material = pre[p].material
  /\ product = pre[p].product
  /\ batches = pre[p].batches
  /\ ledger = pre[p].ledger
  /\ sales = pre[p].sales
  /\ orders = pre[p].orders

Ended(p) == call[p].pc \in {"done", "failed"}

\* C1: the stock of every material and of the product is never negative,
\* whatever requests run and however their steps interleave.
C1_StockNonNegative ==
  /\ \A m \in Materials : material[m].currentStock >= 0
  /\ product.currentStock >= 0

\* C1 witness: two requests ran at the same time, one was refused for lack of
\* stock after the other had taken a material down to zero.
C1_Witness ==
  /\ call[1].pc = "done"
  /\ call[2].result = "InsufficientStock"
  /\ \E m \in Materials : material[m].currentStock = 0

\* C2: of two concurrent sales of one unit (5 of material A each) against a
\* stock of 5, exactly one succeeds, the other fails for lack of stock, and
\* the stock of A ends at 0.
C2_ExactlyOneSaleSucceeds ==
  (/\ call[1].op = "sale" /\ call[2].op = "sale"
   /\ call[1].quantity = 1 /\ call[2].quantity = 1
   /\ Ended(1) /\ Ended(2))
  => /\ \E p \in Procs :
          /\ call[p].pc = "done"
          /\ \A r \in Procs \ {p} :
               call[r].result \in {"InsufficientMaterials", "InsufficientStock"}
     /\ material["A"].currentStock = 0

RECURSIVE LedgerSum(_, _)
LedgerSum(item, n) ==
  IF n = 0 THEN 0
  ELSE LedgerSum(item, n - 1) + (IF ledger[n].item = item THEN ledger[n].quantity ELSE 0)

\* C3: the stock of every item equals its initial stock plus the signed
\* quantities of all the adjustments recorded for it.
C3_StockIsLedgerSum ==
  \A item \in Items : StockOf(item) = initial[item] + LedgerSum(item, Len(ledger))

\* C4: a createProductionBatch that fails for a short recipe line leaves every
\* material, the product and the batches as they were.
C4_FailedBatchLeavesNoTrace ==
  \A p \in Procs :
    (call[p].op = "batch" /\ call[p].result = "InsufficientMaterial")
    => (material = pre[p].material /\ product = pre[p].product
        /\ batches = pre[p].batches)

\* C5: reversedQuantity + wastedQuantity never exceeds the quantity of a batch.
C5_WithinQuantity ==
  \A b \in 1 .. Len(batches) :
    batches[b].reversedQuantity + batches[b].wastedQuantity <= batches[b].quantity

\* C6: the counters of a batch are the sums of the quantities of its
\* successful reverse calls and of its successful waste calls.
C6_CountersAreSums ==
  \A b \in 1 .. Len(batches) :
    /\ batches[b].reversedQuantity = done[b].reversed
    /\ batches[b].wastedQuantity = done[b].wasted

\* C7: a reverse call asking for more than quantity - (reversed + wasted)
\* never succeeds and changes nothing.
C7_ReverseOverBudgetFails ==
  \A p \in Procs :
    (call[p].op = "reverse"
     /\ call[p].quantity > Budget(pre[p].batches[call[p].id]))
    => (call[p].pc # "done" /\ Untouched(p))

\* C8: a waste call asking for more than quantity - (reversed + wasted) never
\* succeeds and changes nothing: waste and reverse draw on one budget.
C8_WasteOverBudgetFails ==
  \A p \in Procs :
    (call[p].op = "waste"
     /\ call[p].quantity > Budget(pre[p].batches[call[p].id]))
    => (call[p].pc # "done" /\ Untouched(p))

\* C9: once reversed + wasted = quantity, every later reverse or waste of a
\* positive quantity on the batch fails and changes nothing.
C9_ClosedForGood ==
  \A p \in Procs :
    (call[p].op \in {"reverse", "waste"}
     /\ call[p].quantity > 0
     /\ Budget(pre[p].batches[call[p].id]) = 0)
    => (call[p].pc # "done" /\ Untouched(p))

\* C10: a batch carries a closure flag exactly when reversed + wasted = quantity.
C10_ClosedIffBudgetUsed ==
  \A b \in 1 .. Len(batches) :
    (batches[b].isReversed \/ batches[b].isWasted) <=> (Budget(batches[b]) = 0)


\* C11: a reverse or waste call asking for more units than the product has in
\* stock never succeeds and changes no stock, cost, ledger entry or batch.
C11_ShortProductFails ==
  \A p \in Procs :
    (call[p].op \in {"reverse", "waste"}
     /\ pre[p].product.currentStock < call[p].quantity)
    => (call[p].pc # "done" /\ Untouched(p))

\* C11 witness: a reverse within the batch's remaining quantity was refused
\* because the product stock was short.
C11_Witness ==
  \E p \in Procs :
    /\ call[p].op = "reverse"
    /\ call[p].result = "CannotReverse"
    /\ pre[p].product.currentStock < call[p].quantity
    /\ call[p].quantity <= pre[p].batches[call[p].id].quantity
                             - pre[p].batches[call[p].id].reversedQuantity

\* C11 witness for waste: a waste within the batch's remaining quantity was
\* refused because the product stock was short.
C11_WitnessWaste ==
  \E p \in Procs :
    /\ call[p].op = "waste"
    /\ call[p].result = "CannotWaste"
    /\ pre[p].product.currentStock < call[p].quantity
    /\ call[p].quantity <= Budget(pre[p].batches[call[p].id])

\* the adjustments a finished call appended to the ledger
Appended(p) == SubSeq(ledger, Len(pre[p].ledger) + 1, Len(ledger))

\* C12: a successful sale appends one 'sale' adjustment of
\* -(perUnitQuantity * quantity) per recipe material; a void that starts from
\* the stocks the sale left brings every recipe material back to its pre-sale
\* stock and appends, per original adjustment, one adjustment of the negated
\* quantity.
C12_SaleVoidRoundTrip ==
  \A p \in Procs :
    /\ (call[p].op = "sale" /\ call[p].pc = "done")
       => /\ Len(Appended(p)) = Len(Recipe)
          /\ \A i \in 1 .. Len(Recipe) :
               /\ Appended(p)[i].item = Recipe[i].material
               /\ Appended(p)[i].adjustmentType = "sale"
               /\ Appended(p)[i].quantity = 0 - (Recipe[i].quantity * call[p].quantity)
               /\ material[Recipe[i].material].currentStock
                    = pre[p].material[Recipe[i].material].currentStock
                      - (Recipe[i].quantity * call[p].quantity)
    /\ (/\ call[p].op = "void" /\ call[p].pc = "done"
        /\ \A id \in { pre[p].sales[call[p].id].stockAdjustments[i] :
                         i \in 1 .. Len(pre[p].sales[call[p].id].stockAdjustments) } :
             pre[p].material[ledger[id].item].currentStock = pre[p].ledger[id].newStock)
       => LET ids == pre[p].sales[call[p].id].stockAdjustments
          IN  /\ Len(Appended(p)) = Len(ids)
              /\ \A i \in 1 .. Len(ids) :
                   /\ Appended(p)[i].item = ledger[ids[i]].item
                   /\ Appended(p)[i].quantity = 0 - ledger[ids[i]].quantity
                   /\ Appended(p)[i].originalAdjustment = ids[i]
                   /\ material[ledger[ids[i]].item].currentStock
                        = ledger[ids[i]].previousStock

\* C12 witness: a sale that was just created has been voided and the stock of
\* a material it took is back where it was.
C12_Witness ==
  \E p \in Procs :
    /\ call[p].op = "void" /\ call[p].pc = "done"
    /\ Len(pre[p].sales[call[p].id].stockAdjustments) = Len(Recipe)
    /\ \A i \in 1 .. Len(Recipe) :
         LET id == pre[p].sales[call[p].id].stockAdjustments[i]
         IN  /\ pre[p].material[ledger[id].item].currentStock = ledger[id].newStock
             /\ ledger[id].quantity < 0
             /\ material[ledger[id].item].currentStock = ledger[id].previousStock

\* C13: a void of a sale that is not 'completed' never succeeds and changes
\* nothing: no material stock is restored and no adjustment is appended.
C13_VoidOnlyOnce ==
  \A p \in Procs :
    (call[p].op = "void" /\ pre[p].sales[call[p].id].status # "completed")
    => (call[p].pc # "done" /\ Untouched(p))

\* the recipe lines that were short when the call of slot p started
ShortLines(p) ==
  { i \in 1 .. Len(Recipe) :
      pre[p].material[Recipe[i].material].currentStock
        < Recipe[i].quantity * call[p].quantity }

\* the shortage entry of recipe line i, from the stocks at the start of the call
Shortage(p, i) ==
  LET required == Recipe[i].quantity * call[p].quantity
      available == pre[p].material[Recipe[i].material].currentStock
  IN  [material |-> Recipe[i].material, required |-> required,
       available |-> available, shortage |-> required - available]

\* C14: a sale created while some recipe line is short fails, lists every
\* short material with required, available and shortage, and changes no
\* stock, appends no adjustment and persists no sale.
C14_ShortSaleListsAll ==
  \A p \in Procs :
    (call[p].op = "sale" /\ ShortLines(p) # {})
    => /\ call[p].pc = "failed"
       /\ call[p].result = "InsufficientMaterials"
       /\ Len(call[p].missing) = Cardinality(ShortLines(p))
       /\ \A i \in ShortLines(p) :
            \E j \in 1 .. Len(call[p].missing) : call[p].missing[j] = Shortage(p, i)
       /\ Untouched(p)

\* C14 witness: a sale was refused with every line of the recipe short.
C14_Witness ==
  \E p \in Procs :
    /\ call[p].op = "sale"
    /\ call[p].result = "InsufficientMaterials"
    /\ Len(call[p].missing) = Len(Recipe)
    /\ Len(Recipe) > 1

\* C15: a createProductionBatch that fails for lack of material reports every
\* recipe line that was short, not only the first one met.
C15_BatchReportsAllShort ==
  \A p \in Procs :
    (call[p].op = "batch" /\ call[p].result = "InsufficientMaterial")
    => \A i \in ShortLines(p) :
         \E j \in 1 .. Len(call[p].missing) :
           call[p].missing[j].material = Recipe[i].material

\* C16: a purchase sets the stock to oldStock + quantity and the average cost
\* to (oldStock * oldAverageCost + totalCost) / (oldStock + quantity), compared
\* here by cross-multiplication; from an empty stock, 10 for 100 and then 10
\* for 50 give the averages 10 and 7.5.
C16_PurchaseAverage ==
  \A p \in Procs :
    (call[p].op = "order" /\ call[p].pc = "done")
    => LET m == call[p].item
           old == pre[p].material[m]
           new == material[m]
           first == [material |-> m, quantity |-> 10, totalCost |-> 100,
                     unitCost |-> [n |-> 10, d |-> 1], deleted |-> FALSE]
           second == [material |-> m, quantity |-> 10, totalCost |-> 50,
                      unitCost |-> [n |-> 5, d |-> 1], deleted |-> FALSE]
       IN  /\ new.currentStock = old.currentStock + call[p].quantity
           /\ new.averageCost.d > 0
           /\ new.averageCost.n * new.currentStock * old.averageCost.d
                = new.averageCost.d * (old.currentStock * old.averageCost.n
                                        + call[p].totalCost * old.averageCost.d)
           /\ (initial[m] = 0 /\ orders = << first >>)
                => new.averageCost = [n |-> 10, d |-> 1]
           /\ (initial[m] = 0 /\ orders = << first, second >>)
                => new.averageCost = [n |-> 15, d |-> 2]

\* C16 witness: 10 for 100 and then 10 for 50 were bought into an empty stock.
C16_Witness ==
  \E p \in Procs :
    /\ call[p].op = "order" /\ call[p].pc = "done"
    /\ initial[call[p].item] = 0
    /\ Len(orders) = 2
    /\ \A o \in 1 .. 2 : orders[o].material = call[p].item /\ orders[o].quantity = 10
    /\ orders[1].totalCost = 100 /\ orders[2].totalCost = 50
    /\ material[call[p].item].currentStock = 20
    /\ material[call[p].item].averageCost = [n |-> 15, d |-> 2]

\* C17: no step of a sale or of a createProductionBatch changes the average
\* cost of any material, whatever else runs at the same time.
C17_ConsumptionKeepsAverage ==
  [][\A p \in Procs :
       (call'[p] # call[p] /\ call'[p].op \in {"sale", "batch"})
       => \A m \in Materials : material'[m].averageCost = material[m].averageCost]_vars

\* C17 witness: a batch used a material up while an average cost other than
\* the initial one was in force, and the average cost is what it was.
C17_Witness ==
  \E p \in Procs :
    /\ call[p].op = "batch" /\ call[p].pc = "done"
    /\ \E m \in Materials :
         /\ material[m].currentStock = 0
         /\ pre[p].material[m].currentStock > 0
    /\ \E m \in Materials :
         /\ material[m].currentStock < pre[p].material[m].currentStock
         /\ material[m].averageCost # R(1)
         /\ material[m].averageCost = pre[p].material[m].averageCost

\* C18: no step of a waste call, successful or failed, changes the stock or
\* the average cost of a material or appends a material adjustment.
C18_WasteTouchesNoMaterial ==
  [][\A p \in Procs :
       (call'[p] # call[p] /\ call'[p].op = "waste")
       => /\ material' = material
          /\ \A n \in (Len(ledger) + 1) .. Len(ledger') :
               ledger'[n].itemType = "product"]_vars

\* C18 witness: a waste call succeeded, took finished goods and recorded its
\* product adjustment.
C18_Witness ==
  \E p \in Procs :
    /\ call[p].op = "waste" /\ call[p].pc = "done"
    /\ call[p].quantity > 0
    /\ Len(call[p].adjustmentIds) = 1
    /\ ledger[call[p].adjustmentIds[1]].adjustmentType = "waste"
    /\ ledger[call[p].adjustmentIds[1]].itemType = "product"
    /\ batches[call[p].id].wastedQuantity > 0

\* C19: when two sales that ran at the same time have both succeeded, the
\* stock of every material is its initial stock plus the deltas of both: no
\* update is lost and no stock is consumed twice.
C19_NoLostUpdate ==
  (/\ call[1].op = "sale" /\ call[1].pc = "done"
   /\ call[2].op = "sale" /\ call[2].pc = "done")
  => \A i \in 1 .. Len(Recipe) :
       material[Recipe[i].material].currentStock
         = initial[Recipe[i].material]
           - (Recipe[i].quantity * call[1].quantity)
           - (Recipe[i].quantity * call[2].quantity)

\* C20: a createProductionBatch, reverse, waste, sale or purchase called with
\* a quantity of 0 or less never succeeds and changes no stock, average cost,
\* ledger entry, batch or sale.
C20_NonPositiveRejected ==
  \A p \in Procs :
    (call[p].op \in {"batch", "reverse", "waste", "sale", "order"}
     /\ call[p].quantity <= 0)
    => (call[p].pc # "done" /\ Untouched(p))

\* C21: the quantity, previousStock and newStock of a ledger adjustment never
\* change once it is recorded, and its isReversed flag and reversalAdjustment
\* back-link are written at most once: an adjustment that is marked reversed
\* keeps the back-link it has.
C21_LedgerEntryFrozen ==
  [][/\ Len(ledger') >= Len(ledger)
     /\ \A n \in 1 .. Len(ledger) :
          /\ ledger'[n].quantity = ledger[n].quantity
          /\ ledger'[n].previousStock = ledger[n].previousStock
          /\ ledger'[n].newStock = ledger[n].newStock
          /\ ledger[n].isReversed
               => /\ ledger'[n].isReversed
                  /\ ledger'[n].reversalAdjustment = ledger[n].reversalAdjustment]_vars

\* a cost that is a number of the ordinary kind: neither NaN nor an infinity
Finite(x) == x.d > 0

\* C22: in every reachable state the average cost of every material and the
\* average unit cost of the product are defined, finite numbers not below 0.
C22_AverageCostDefined ==
  /\ \A m \in Materials :
       Finite(material[m].averageCost) /\ material[m].averageCost.n >= 0
  /\ Finite(product.averageUnitCost) /\ product.averageUnitCost.n >= 0

\* C23: a reverse or a void that fails leaves nothing of itself behind: with
\* one request at a time, the stocks, average costs, ledger, batches and sales
\* are what they were when the failed call started.
C23_FailedLeavesNoPartialState ==
  \A p \in Procs :
    (call[p].op \in {"reverse", "void"} /\ call[p].pc = "failed")
    => Untouched(p)

\* C24: no step of canReverseBatch changes a batch, a stock, an average cost
\* or the ledger, and what reverseProductionBatch decides is fixed by the
\* database as it is when reverseProductionBatch is called: it is refused for
\* the remaining quantity or for the product stock exactly when the batch and
\* the product loaded by that call say so.
C24_CanReverseReadOnly ==
  /\ [][\A p \in Procs :
          (call'[p] # call[p] /\ call'[p].op = "canReverse")
          => UNCHANGED << material, product, batches, ledger, sales, orders >>]_vars
  /\ [](\A p \in Procs :
          (call[p].op = "reverse" /\ Ended(p))
          => LET batch == pre[p].batches[call[p].id]
                 over == call[p].quantity > batch.quantity - AlreadyReversedQty(batch)
                 short == pre[p].product.currentStock < call[p].quantity
             IN  /\ (call[p].result = "OverReversal") <=> over
                 /\ (call[p].result = "CannotReverse") <=> (~over /\ short)
                 /\ (call[p].pc = "done") => (~over /\ ~short))

\* C24 witness: canReverseBatch answered { canReverse: true } for a batch that
\* is wasted in full, left the database as it was, and every reverse of a
\* positive quantity on that batch would be refused.
C24_Witness ==
  \E p \in Procs :
    /\ call[p].op = "canReverse" /\ call[p].pc = "done" /\ call[p].result = "ok"
    /\ Untouched(p)
    /\ batches[call[p].id].isWasted
    /\ \A q \in 1 .. MaxQty :
         q > batches[call[p].id].quantity - AlreadyReversedQty(batches[call[p].id])

\* the number of successful reverse calls so far: each appends one product
\* adjustment of type 'reversal'
ReversalsDone ==
  Cardinality({ n \in 1 .. Len(ledger) :
                  ledger[n].itemType = "product" /\ ledger[n].adjustmentType = "reversal" })

\* C25: a successful reverse of `quantity` units of a batch raises the stock of
\* each material of the batch's snapshot by line.quantity * quantity /
\* batch.quantity, appends one 'reversal' adjustment of that amount per
\* material and then one for the product, and lowers the product stock by
\* `quantity`; when the only calls made are one createProductionBatch and the
\* reversals, in one call or several, of all its units, every material is back
\* at the stock it had before the batch.
C25_ReverseRestoresMaterials ==
  /\ \A p \in Procs :
       (call[p].op = "reverse" /\ call[p].pc = "done")
       => LET batch == pre[p].batches[call[p].id]
              lines == batch.materialCosts
          IN  /\ Len(Appended(p)) = Len(lines) + 1
              /\ \A i \in 1 .. Len(lines) :
                   LET m == lines[i].material
                       delta == material[m].currentStock - pre[p].material[m].currentStock
                   IN  /\ delta * batch.quantity = lines[i].quantity * call[p].quantity
                       /\ Appended(p)[i].item = m
                       /\ Appended(p)[i].adjustmentType = "reversal"
                       /\ Appended(p)[i].quantity = delta
              /\ product.currentStock = pre[p].product.currentStock - call[p].quantity
  /\ (/\ \A p \in Procs : Free(p)
      /\ Len(batches) = 1
      /\ batches[1].wastedQuantity = 0
      /\ batches[1].reversedQuantity = batches[1].quantity
      /\ MaxBatchCalls - callsLeft = 1 + ReversalsDone)
     => \A m \in Materials : material[m].currentStock = initial[m]

\* C25 witness: a batch of two units was reversed one unit at a time, nothing
\* else was called, and the materials it consumed are back at their first stock.
C25_Witness ==
  /\ Len(batches) = 1
  /\ batches[1].quantity = 2
  /\ batches[1].reversedQuantity = 2
  /\ ReversalsDone = 2
  /\ MaxBatchCalls - callsLeft = 3
  /\ call[1].op = "reverse" /\ call[1].pc = "done" /\ call[1].quantity = 1
  /\ \A i \in 1 .. Len(Recipe) :
       /\ material[Recipe[i].material].currentStock = initial[Recipe[i].material]
       /\ pre[1].material[Recipe[i].material].currentStock
            = initial[Recipe[i].material] - Recipe[i].quantity

\* C26: with one request at a time, each materialCosts line of a new batch
\* carries the average cost the material had when createProductionBatch was
\* called; no step ever changes the materialCosts, unitCost or totalCost of a
\* stored batch; and a successful reverse leaves each material with the
\* average (stock * averageCost + restored * unitCostAtTime) / newStock, the
\* restored quantity being valued at the cost frozen in the batch.
C26_FrozenCost ==
  /\ [](\A p \in Procs :
          /\ (call[p].op = "batch" /\ call[p].pc = "done")
             => LET lines == batches[call[p].id].materialCosts
                IN  /\ Len(lines) = Len(Recipe)
                    /\ \A i \in 1 .. Len(lines) :
                         lines[i].unitCostAtTime
                           = pre[p].material[lines[i].material].averageCost
          /\ (call[p].op = "reverse" /\ call[p].pc = "done")
             => LET lines == batches[call[p].id].materialCosts
                IN  \A i \in 1 .. Len(lines) :
                      LET old == pre[p].material[lines[i].material]
                          new == material[lines[i].material]
                          restored == new.currentStock - old.currentStock
                      IN  new.averageCost =
                            RDiv(RAdd(RMul(R(old.currentStock), old.averageCost),
                                      RMul(R(restored), lines[i].unitCostAtTime)),
                                 R(new.currentStock)))
  /\ [][\A b \in 1 .. Len(batches) :
          /\ batches'[b].materialCosts = batches[b].materialCosts
          /\ batches'[b].unitCost = batches[b].unitCost
          /\ batches'[b].totalCost = batches[b].totalCost]_vars

\* C26 witness: a purchase moved the average cost of a material away from the
\* cost frozen in the batch, a reverse then restored that material, and the
\* batch still carries the frozen cost.
C26_Witness ==
  \E p \in Procs :
    /\ call[p].op = "reverse" /\ call[p].pc = "done" /\ call[p].quantity > 0
    /\ \E i \in 1 .. Len(batches[call[p].id].materialCosts) :
         LET line == batches[call[p].id].materialCosts[i]
             old == pre[p].material[line.material]
             new == material[line.material]
         IN  /\ old.averageCost # line.unitCostAtTime
             /\ new.currentStock > old.currentStock
             /\ new.averageCost # old.averageCost
             /\ line.unitCostAtTime = R(1)

\* the sum of quantity * unitCostAtTime over the first n lines
RECURSIVE LinesCost(_, _)
LinesCost(lines, n) ==
  IF n = 0 THEN R(0)
  ELSE RAdd(LinesCost(lines, n - 1),
            RMul(R(lines[n].quantity), lines[n].unitCostAtTime))

\* C27: with one request at a time, a successful createProductionBatch of
\* `quantity` units stores one line per recipe line with quantity = recipe
\* quantity * quantity, totalCost = the sum of line quantity * unitCostAtTime
\* and unitCost = totalCost / quantity, raises the product stock by `quantity`
\* and leaves the product with the average unit cost
\* (oldStock * oldAverage + totalCost) / (oldStock + quantity).
C27_BatchCosting ==
  \A p \in Procs :
    (call[p].op = "batch" /\ call[p].pc = "done")
    => LET batch == batches[call[p].id]
           lines == batch.materialCosts
           old == pre[p].product
       IN  /\ batch.quantity = call[p].quantity
           /\ Len(lines) = Len(Recipe)
           /\ \A i \in 1 .. Len(lines) :
                /\ lines[i].material = Recipe[i].material
                /\ lines[i].quantity = Recipe[i].quantity * call[p].quantity
           /\ batch.totalCost = LinesCost(lines, Len(lines))
           /\ RMul(batch.unitCost, R(call[p].quantity)) = batch.totalCost
           /\ product.currentStock = old.currentStock + call[p].quantity
           /\ RMul(product.averageUnitCost, R(product.currentStock))
                = RAdd(RMul(R(old.currentStock), old.averageUnitCost), batch.totalCost)

\* C27 witness: a batch was added to a product stock already valued at another
\* unit cost, so that the new average lies strictly between the two.
C27_Witness ==
  \E p \in Procs :
    /\ call[p].op = "batch" /\ call[p].pc = "done"
    /\ pre[p].product.currentStock > 0
    /\ batches[call[p].id].unitCost # pre[p].product.averageUnitCost
    /\ product.averageUnitCost # pre[p].product.averageUnitCost
    /\ product.averageUnitCost # batches[call[p].id].unitCost

\* C28: with one request at a time, a successful reverse or waste of q units
\* lowers the product stock by q, lowers the product's total value by
\* q * batch.unitCost but not below 0, leaves the average unit cost at that
\* value over the new stock (0 when the new stock is 0), and appends exactly
\* one product adjustment, of quantity -q with the stock before and after,
\* of type 'reversal' for a reverse and 'waste' for a waste.
C28_ProductSideOfReverseAndWaste ==
  \A p \in Procs :
    (call[p].op \in {"reverse", "waste"} /\ call[p].pc = "done")
    => LET q == call[p].quantity
           old == pre[p].product
           batch == pre[p].batches[call[p].id]
           diff == RSub(RMul(R(old.currentStock), old.averageUnitCost),
                        RMul(R(q), batch.unitCost))
           value == IF diff.n < 0 THEN R(0) ELSE diff
           own == { n \in (Len(pre[p].ledger) + 1) .. Len(ledger) :
                      ledger[n].itemType = "product" }
       IN  /\ product.currentStock = old.currentStock - q
           /\ IF product.currentStock > 0
              THEN RMul(product.averageUnitCost, R(product.currentStock)) = value
              ELSE product.averageUnitCost = R(0)
           /\ own = {Len(ledger)}
           /\ ledger[Len(ledger)].item = "P"
           /\ ledger[Len(ledger)].quantity = 0 - q
           /\ ledger[Len(ledger)].previousStock = old.currentStock
           /\ ledger[Len(ledger)].newStock = product.currentStock
           /\ ledger[Len(ledger)].adjustmentType
                = (IF call[p].op = "reverse" THEN "reversal" ELSE "waste")

\* C28 witness: units of a batch were wasted out of a product stock valued at
\* another average than the batch's unit cost, some stock is left, and its
\* average has moved.
C28_Witness ==
  \E p \in Procs :
    /\ call[p].op = "waste" /\ call[p].pc = "done" /\ call[p].quantity > 0
    /\ product.currentStock > 0
    /\ pre[p].batches[call[p].id].unitCost # pre[p].product.averageUnitCost
    /\ product.averageUnitCost # pre[p].product.averageUnitCost
    /\ ledger[Len(ledger)].adjustmentType = "waste"

\* C29: when reverse and waste requests on one batch run at the same time,
\* reversedQuantity + wastedQuantity never exceeds the batch's quantity, the
\* two counters are the sums of the quantities of the calls that succeeded,
\* and once every call has ended the product stock is down by exactly the
\* quantities of the calls that succeeded.
C29_RacingReverseAndWaste ==
  /\ \A b \in 1 .. Len(batches) :
       /\ batches[b].reversedQuantity + batches[b].wastedQuantity <= batches[b].quantity
       /\ batches[b].reversedQuantity = done[b].reversed
       /\ batches[b].wastedQuantity = done[b].wasted
  /\ ((\A p \in Procs : Free(p)) /\ Len(batches) = 1)
     => product.currentStock
          = batches[1].quantity - (done[1].reversed + done[1].wasted)

\* C30: every stored sale lists one 'sale' adjustment per recipe line, of
\* quantity -(perUnitQuantity * quantity), a sale just created is 'completed'
\* and lists exactly the adjustments its call created; and, once no request is
\* running, every 'sale' adjustment of the ledger belongs to a stored sale.
C30_SaleAndConsumptionTogether ==
  /\ \A s \in 1 .. Len(sales) :
       /\ Len(sales[s].stockAdjustments) = Len(Recipe)
       /\ \A i \in 1 .. Len(Recipe) :
            LET n == sales[s].stockAdjustments[i]
            IN  /\ n \in 1 .. Len(ledger)
                /\ ledger[n].item = Recipe[i].material
                /\ ledger[n].adjustmentType = "sale"
                /\ ledger[n].quantity = 0 - (Recipe[i].quantity * sales[s].quantity)
  /\ \A p \in Procs :
       (call[p].op = "sale" /\ call[p].pc = "done")
       => /\ sales[call[p].id].status \in {"completed", "voided"}
          /\ pre[p].sales = SubSeq(sales, 1, Len(pre[p].sales))
               => sales[Len(sales)].status = "completed"
          /\ sales[call[p].id].stockAdjustments = call[p].adjustmentIds
  /\ (\A p \in Procs : Free(p))
     => \A n \in 1 .. Len(ledger) :
          ledger[n].adjustmentType = "sale"
          => \E s \in 1 .. Len(sales) :
               \E i \in 1 .. Len(sales[s].stockAdjustments) :
                 sales[s].stockAdjustments[i] = n

\* C31: every adjustment, at the step that appends it to the ledger, has
\* newStock = previousStock + quantity, previousStock equal to the stock the
\* item had just before that step and newStock equal to the stock it has just
\* after it.
C31_AdjustmentRecordsTheChange ==
  [][\A n \in (Len(ledger) + 1) .. Len(ledger') :
       LET e == ledger'[n]
       IN  /\ e.newStock = e.previousStock + e.quantity
           /\ e.previousStock = (IF e.item = "P" THEN product.currentStock
                                 ELSE material[e.item].currentStock)
           /\ e.newStock = (IF e.item = "P" THEN product'.currentStock
                            ELSE material'[e.item].currentStock)]_vars

\* C32: a deleteOrder that finds the material's stock below the order's
\* quantity, or the order already deleted, fails (it has written nothing by
\* then); the step by which a deleteOrder succeeds lowers the stock of the
\* order's material by exactly the order's quantity and removes the order; and
\* no two deleteOrder calls succeed on the same order, run one after the
\* other or at the same time.
C32_DeleteOrderOnce ==
  /\ [](\A p \in Procs :
          call[p].op = "delete"
          => LET order == pre[p].orders[call[p].id]
             IN  /\ (order.deleted
                     \/ pre[p].material[order.material].currentStock < order.quantity)
                    => (call[p].pc = "failed" /\ call[p].result # "ValidationError")
                 /\ call[p].pc = "done" => orders[call[p].id].deleted)
  /\ [](~(/\ call[1].op = "delete" /\ call[1].pc = "done"
          /\ call[2].op = "delete" /\ call[2].pc = "done"
          /\ call[1].id = call[2].id))
  /\ [][\A p \in Procs :
          (call[p].op = "delete" /\ call[p].pc # "done" /\ call'[p].pc = "done")
          => LET order == orders[call[p].id]
             IN  material'[order.material].currentStock
                   = material[order.material].currentStock - order.quantity]_vars

\* C33: a purchase followed at once by the deletion of that order leaves the
\* material with the currentStock and the averageCost it had before the
\* purchase, whatever they were, a stock of 0 with a non-zero average cost
\* included.
C33_CreateThenDeleteRestores ==
  (/\ call[1].op = "delete" /\ call[1].pc = "done"
   /\ Len(orders) = 1 /\ callsLeft = 0)
  => material = pre[2].material


\* C34: no step of a sale or of a voidSale changes the currentStock or the
\* averageUnitCost of the product or appends a product adjustment; a step that
\* changes the product belongs to a createProductionBatch, a reverse, a waste
\* or a manual adjustment.
C34_SalesLeaveProductAlone ==
  [][/\ \A p \in Procs :
          (call'[p] # call[p] /\ call'[p].op \in {"sale", "void"})
          => /\ product'.currentStock = product.currentStock
             /\ product'.averageUnitCost = product.averageUnitCost
             /\ \A n \in (Len(ledger) + 1) .. Len(ledger') :
                  ledger'[n].itemType = "material"
     /\ product' # product
        => \E p \in Procs :
             /\ call'[p] # call[p]
             /\ call'[p].op \in {"batch", "reverse", "waste", "manual"}]_vars

\* C34 witness: with finished goods in stock, a sale succeeded and was voided:
\* both took and gave back materials, the product is as the void found it.
C34_Witness ==
  \E p \in Procs :
    /\ call[p].op = "void" /\ call[p].pc = "done"
    /\ sales[call[p].id].status = "voided"
    /\ Len(call[p].adjustmentIds) = Len(Recipe)
    /\ \E m \in Materials : material[m].currentStock > pre[p].material[m].currentStock
    /\ product.currentStock > 0
    /\ product = pre[p].product


\* C35: canReverseBatch answers as the reverse call would: for a batch with no
\* units left (reversedQuantity + wastedQuantity = quantity, by reversals, by
\* waste or by both) it answers canReverse: false with a reason, and it answers
\* canReverse: true only for a batch on which a reverse of some positive
\* quantity within what is left passes the over-reversal guard.
C35_CanReverseAgreesWithReverse ==
  \A p \in Procs :
    (call[p].op = "canReverse" /\ Ended(p))
    => LET batch == pre[p].batches[call[p].id]
       IN  /\ Budget(batch) = 0 => call[p].result # "ok"
           /\ call[p].result = "ok"
              => \E q \in 1 .. Budget(batch) :
                   ~(q > batch.quantity - AlreadyReversedQty(batch))


\* C36: a manual adjustment whose resulting stock would be negative (an
\* increase or decrease that takes the stock below 0, a correction to a target
\* below 0) is refused with 'Stock cannot be negative' and changes no stock
\* and no ledger entry; a successful correction appends an adjustment with
\* quantity = target - previousStock and newStock = target and, when the stock
\* is still the one the call loaded, leaves the item at the target.
C36_ManualAdjustment ==
  [][\A p \in Procs :
       (call'[p] # call[p] /\ call'[p].op = "manual")
       => LET c == call'[p]
              stock == StockOf(c.item)
              resulting == IF c.kind = "increase" THEN stock + c.quantity
                           ELSE IF c.kind = "decrease" THEN stock - c.quantity
                           ELSE c.quantity
          IN  /\ (Free(p) /\ resulting < 0)
                 => /\ c.pc = "failed" /\ c.result = "StockCannotBeNegative"
                    /\ UNCHANGED << material, product, ledger >>
              /\ c.pc = "failed" => UNCHANGED << material, product, ledger >>
              /\ (c.pc = "done" /\ c.kind = "correction")
                 => /\ Len(ledger') = Len(ledger) + 1
                    /\ \A n \in 1 .. Len(ledger) : ledger'[n] = ledger[n]
                    /\ LET e == ledger'[Len(ledger')]
                       IN  /\ e.item = c.item
                           /\ e.quantity = c.quantity - e.previousStock
                           /\ e.newStock = c.quantity
                           /\ stock = e.previousStock
                              => (IF c.item = "P" THEN product'.currentStock
                                  ELSE material'[c.item].currentStock) = c.quantity]_vars

\* C36 witness: an increase by a negative quantity was refused with 'Stock
\* cannot be negative' after a correction had lowered a stock to its target,
\* and the database is as the refused call found it.
C36_Witness ==
  \E p \in Procs :
    /\ call[p].op = "manual" /\ call[p].pc = "failed"
    /\ call[p].result = "StockCannotBeNegative"
    /\ call[p].kind = "increase" /\ call[p].quantity < 0
    /\ Untouched(p)
    /\ \E n \in 1 .. Len(ledger) :
         /\ ledger[n].adjustmentType = "correction"
         /\ ledger[n].quantity < 0
         /\ ledger[n].newStock = 0
         /\ ledger[n].previousStock + ledger[n].quantity = 0
         /\ StockOf(ledger[n].item) = 0

=============================================================================
